---- MODULE Spec2Model ----
(***************************************************************************)
(* Model of replace_images.py: the alternate-artwork replacement engine.   *)
(* File names are sequences of one-character strings so that the regular   *)
(* expression search, the glob match of Path.rglob and the lexical order   *)
(* used by sorted() are computed character by character.                   *)
(***************************************************************************)
EXTENDS Integers, Sequences, FiniteSets, TLC

VARIABLES fs, staging, listing, idx, pc, cur, bases, targets,
          sortedTargets, pngTargets, fs0, staging0, processed, outcome,
          rmFailed, cpFailed, cpTried, written, raised

vars == <<fs, staging, listing, idx, pc, cur, bases, targets,
          sortedTargets, pngTargets, fs0, staging0, processed, outcome,
          rmFailed, cpFailed, cpTried, written, raised>>

----------------------------------------------------------------------------
(* Characters: printable ASCII, code point = 31 + position (the double     *)
(* quote, the backslash and the back quote are spelled out).               *)

Ascii ==
  <<" ", "!", "dquote", "#", "$", "%", "&", "'", "(", ")", "*", "+", ",", "-",
    ".", "/", "0", "1", "2", "3", "4", "5", "6", "7", "8", "9", ":", ";",
    "<", "=", ">", "?", "@", "A", "B", "C", "D", "E", "F", "G", "H", "I",
    "J", "K", "L", "M", "N", "O", "P", "Q", "R", "S", "T", "U", "V", "W",
    "X", "Y", "Z", "[", "bslash", "]", "^", "_", "bquote", "a", "b", "c", "d", "e",
    "f", "g", "h", "i", "j", "k", "l", "m", "n", "o", "p", "q", "r", "s",
    "t", "u", "v", "w", "x", "y", "z", "{", "|", "}", "~">>

CodeMap ==
  [c \in {Ascii[i] : i \in 1..Len(Ascii)} |->
     31 + (CHOOSE i \in 1..Len(Ascii) : Ascii[i] = c)]

\* ord(c)
Code(c) == CodeMap[c]

IsDigit(c) == Code(c) >= 48 /\ Code(c) <= 57

IsLower(c) == Code(c) >= 97 /\ Code(c) <= 122

\* str.upper(), one character
Upper(c) == IF IsLower(c) THEN Ascii[Code(c) - 32 - 31] ELSE c

UpperStr(s) == [i \in 1..Len(s) |-> Upper(s[i])]

\* str.lower(), one character
Lower(c) == IF Code(c) >= 65 /\ Code(c) <= 90 THEN Ascii[Code(c) + 32 - 31] ELSE c

LowerStr(s) == [i \in 1..Len(s) |-> Lower(s[i])]

\* Python's < on str: lexicographic by code point
RECURSIVE StrLess(_, _)
StrLess(a, b) ==
  IF b = <<>> THEN FALSE
  ELSE IF a = <<>> THEN TRUE
  ELSE IF a[1] # b[1] THEN Code(a[1]) < Code(b[1])
  ELSE StrLess(Tail(a), Tail(b))

\* str.endswith
EndsWith(s, t) ==
  Len(s) >= Len(t) /\ SubSeq(s, Len(s) - Len(t) + 1, Len(s)) = t

\* x in list
InSeq(x, s) == \E i \in 1..Len(s) : s[i] = x

----------------------------------------------------------------------------
(* Constants of the module                                                 *)

PNG == <<".", "p", "n", "g">>
JPG == <<".", "j", "p", "g">>
JPEG == <<".", "j", "p", "e", "g">>

ALLOWED_EXTENSIONS == <<PNG, JPG, JPEG>>

SMALL == <<"_", "s", "m", "a", "l", "l">>

SUFFIXES == << <<>>, SMALL >>

\* the two-letter prefixes of CARD_CODE_PATTERN
CodePrefixes == { <<"O", "P">>, <<"S", "T">>, <<"E", "B">> }

\* CARD_CODE_PATTERN matches s at position i: (?i)(?:OP|ST|EB)\d{2}-\d{3}
CodeAt(s, i) ==
  /\ i + 7 <= Len(s)
  /\ <<Upper(s[i]), Upper(s[i + 1])>> \in CodePrefixes
  /\ IsDigit(s[i + 2]) /\ IsDigit(s[i + 3])
  /\ s[i + 4] = "-"
  /\ IsDigit(s[i + 5]) /\ IsDigit(s[i + 6]) /\ IsDigit(s[i + 7])

None == <<"None">>

\* CARD_CODE_PATTERN.search(stem): the leftmost match, or None
CodeSearch(stem) ==
  IF \E i \in 1..Len(stem) : CodeAt(stem, i)
  THEN LET i == CHOOSE k \in 1..Len(stem) :
                  CodeAt(stem, k) /\ \A m \in 1..(k - 1) : ~CodeAt(stem, m)
       IN SubSeq(stem, i, i + 7)
  ELSE None

\* str.rstrip() on the alphabet's only whitespace character
RECURSIVE RStrip(_)
RStrip(s) ==
  IF s # <<>> /\ s[Len(s)] = " " THEN RStrip(SubSeq(s, 1, Len(s) - 1)) ELSE s

\* stem.split("(", 1)[0]
BeforeParen(stem) ==
  LET i == CHOOSE k \in 1..Len(stem) :
             stem[k] = "(" /\ \A m \in 1..(k - 1) : stem[m] # "("
  IN SubSeq(stem, 1, i - 1)

\* the match without the upper-casing
CardCodeAsMatched(m) == m

\* match.group(0).upper()
CardCodeOf(m) == UpperStr(m)

\* CardNameBases.from_filename
from_filename(stem) ==
  [full_stem |-> stem,
   card_code |-> IF CodeSearch(stem) # None
                 THEN CardCodeOf(CodeSearch(stem)) ELSE None,
   before_parenthesis |-> IF InSeq("(", stem)
                          THEN RStrip(BeforeParen(stem)) ELSE None]

\* "if x and x not in bases": None and the empty string are falsy
Wanted(x, bs) == x # None /\ x # <<>> /\ ~InSeq(x, bs)

\* CardNameBases.get_unique_bases
get_unique_bases(b) ==
  LET b1 == <<b.full_stem>>
      b2 == IF Wanted(b.card_code, b1) THEN Append(b1, b.card_code) ELSE b1
  IN IF Wanted(b.before_parenthesis, b2)
     THEN Append(b2, b.before_parenthesis) ELSE b2

----------------------------------------------------------------------------
(* Path.rglob(pattern): the candidate name is handed to the glob engine,   *)
(* where *, ? and [...] are wildcards (fnmatch rules).                     *)

\* index of the "]" closing the class opened at pat[i] = "[", 0 if none:
\* a "!" and then a "]" right after the "[" belong to the class
ClassEnd(pat, i) ==
  LET j0 == IF i + 1 <= Len(pat) /\ pat[i + 1] = "!" THEN i + 2 ELSE i + 1
      j1 == IF j0 <= Len(pat) /\ pat[j0] = "]" THEN j0 + 1 ELSE j0
  IN IF \E e \in j1..Len(pat) : pat[e] = "]"
     THEN CHOOSE e \in j1..Len(pat) :
            pat[e] = "]" /\ \A m \in j1..(e - 1) : pat[m] # "]"
     ELSE 0

\* c is a member of the class body cls (the text between the brackets,
\* negation mark removed): single characters and lo-hi ranges
RECURSIVE InClass(_, _)
InClass(c, cls) ==
  IF cls = <<>> THEN FALSE
  ELSE IF Len(cls) >= 3 /\ cls[2] = "-"
       THEN \/ (Code(cls[1]) <= Code(c) /\ Code(c) <= Code(cls[3]))
            \/ InClass(c, SubSeq(cls, 4, Len(cls)))
       ELSE cls[1] = c \/ InClass(c, Tail(cls))

\* fnmatch of name[j..] against pat[i..]
RECURSIVE GlobFrom(_, _, _, _)
GlobFrom(pat, i, name, j) ==
  IF i > Len(pat) THEN j > Len(name)
  ELSE IF pat[i] = "*"
       THEN \/ GlobFrom(pat, i + 1, name, j)
            \/ (j <= Len(name) /\ GlobFrom(pat, i, name, j + 1))
  ELSE IF pat[i] = "?"
       THEN j <= Len(name) /\ GlobFrom(pat, i + 1, name, j + 1)
  ELSE IF pat[i] = "[" /\ ClassEnd(pat, i) # 0
       THEN LET e == ClassEnd(pat, i)
                neg == pat[i + 1] = "!"
                cls == SubSeq(pat, IF neg THEN i + 2 ELSE i + 1, e - 1)
            IN /\ j <= Len(name)
               /\ (InClass(name[j], cls) # neg)
               /\ GlobFrom(pat, e + 1, name, j + 1)
  ELSE j <= Len(name) /\ name[j] = pat[i] /\ GlobFrom(pat, i + 1, name, j + 1)

\* the name matches the pattern given to rglob
GlobMatch(pat, name) == GlobFrom(pat, 1, name, 1)

\* f"{base}{suffix}{ext}"
candidate_name(base, suffix, ext) == base \o suffix \o ext

----------------------------------------------------------------------------
(* Paths.  A file of the asset tree is [dir, name]: dir is the sequence of *)
(* directory names below the root, name the file name.                     *)

Root == <<"Cards">>

\* Path.parts
Parts(p) == Root \o p.dir \o <<p.name>>

\* Path.suffix: from the last "." of the name (none, or a leading dot only:
\* empty suffix)
Suffix(name) ==
  IF \E i \in 2..Len(name) : name[i] = "."
  THEN LET i == CHOOSE k \in 2..Len(name) :
                  name[k] = "." /\ \A m \in (k + 1)..Len(name) : name[m] # "."
       IN SubSeq(name, i, Len(name))
  ELSE <<>>

\* the .png name without its directory
with_suffix_png_NameOnly(p) ==
  [dir |-> <<>>,
   name |-> SubSeq(p.name, 1, Len(p.name) - Len(Suffix(p.name))) \o PNG]

\* Path.with_suffix(".png")
with_suffix_png(p) ==
  [dir |-> p.dir,
   name |-> SubSeq(p.name, 1, Len(p.name) - Len(Suffix(p.name))) \o PNG]

\* the files of tree that rglob(pattern) yields, in the walk order ord
\* (a sequence listing the tree's files; the order of a directory walk is
\* the file system's)
RECURSIVE rglob(_, _)
rglob(ord, pat) ==
  IF ord = <<>> THEN <<>>
  ELSE (IF GlobMatch(pat, ord[1].name) THEN <<ord[1]>> ELSE <<>>)
       \o rglob(Tail(ord), pat)

\* the inner two loops of find_targets for one base
MatchesOfBase(ord, base) ==
  rglob(ord, candidate_name(base, SUFFIXES[1], ALLOWED_EXTENSIONS[1])) \o
  rglob(ord, candidate_name(base, SUFFIXES[2], ALLOWED_EXTENSIONS[1])) \o
  rglob(ord, candidate_name(base, SUFFIXES[1], ALLOWED_EXTENSIONS[2])) \o
  rglob(ord, candidate_name(base, SUFFIXES[2], ALLOWED_EXTENSIONS[2])) \o
  rglob(ord, candidate_name(base, SUFFIXES[1], ALLOWED_EXTENSIONS[3])) \o
  rglob(ord, candidate_name(base, SUFFIXES[2], ALLOWED_EXTENSIONS[3]))

\* TargetFinder.find_targets
RECURSIVE find_targets(_, _)
find_targets(ord, base_names) ==
  IF base_names = <<>> THEN <<>>
  ELSE MatchesOfBase(ord, base_names[1]) \o find_targets(ord, Tail(base_names))

\* the sort key (p.name.endswith("_small"), len(p.parts), p.name)
SortKey(p) == <<EndsWith(p.name, SMALL), Len(Parts(p)), p.name>>

\* Python's < on the key tuples (False < True)
KeyLess(a, b) ==
  IF a[1] # b[1] THEN b[1]
  ELSE IF a[2] # b[2] THEN a[2] < b[2]
  ELSE StrLess(a[3], b[3])

\* insert x after every element that is not greater: keeps sorted() stable
RECURSIVE InsertSorted(_, _)
InsertSorted(x, s) ==
  IF s = <<>> THEN <<x>>
  ELSE IF KeyLess(SortKey(x), SortKey(s[1])) THEN <<x>> \o s
  ELSE <<s[1]>> \o InsertSorted(x, Tail(s))

\* TargetFinder.sort_targets_by_priority
RECURSIVE sort_targets_by_priority(_)
sort_targets_by_priority(ts) ==
  IF ts = <<>> THEN <<>>
  ELSE InsertSorted(ts[Len(ts)],
                    sort_targets_by_priority(SubSeq(ts, 1, Len(ts) - 1)))

\* target.suffix.lower() != '.png'
NeedsConversion(p) == LowerStr(Suffix(p.name)) # PNG

\* the list returned by TargetPathConverter.convert_to_png_paths
convert_to_png_paths(ts) ==
  [i \in 1..Len(ts) |->
     IF NeedsConversion(ts[i]) THEN with_suffix_png(ts[i]) ELSE ts[i]]

\* the paths handed to _remove_old_file by convert_to_png_paths
StalePaths(ts) == {ts[i] : i \in {k \in 1..Len(ts) : NeedsConversion(ts[k])}}

\* no stale file is unlinked
RemovedFiles_None(fsys, ts, failing) == {}

\* the files convert_to_png_paths unlinks: _remove_old_file removes the path
\* when it exists, unless the unlink raises (failing: the paths whose unlink
\* raises; the exception is logged and swallowed)
RemovedFiles(fsys, ts, failing) == (StalePaths(ts) \cap DOMAIN fsys) \ failing

\* a file system without the files of gone
Without(fsys, gone) == [p \in (DOMAIN fsys) \ gone |-> fsys[p]]

\* a file system where path p holds content c
WithFile(fsys, p, c) ==
  [q \in (DOMAIN fsys) \cup {p} |-> IF q = p THEN c ELSE fsys[q]]

----------------------------------------------------------------------------
(* Images and file contents                                                *)

\* no content: nothing was written
NoContent == [kind |-> "none", id |-> 0, w |-> 0, h |-> 0]

\* the module imports Pillow at load time; without it the annotations of
\* ImageConverter.convert_to_rgb raise and the module does not load, so a
\* running program always has the flag set
PIL_AVAILABLE == TRUE

\* the content of a file that a failed write left behind
Truncated == [kind |-> "truncated", id |-> 0, w |-> 0, h |-> 0]

\* ImageConverter.save_as_png: the image written for the decoded source
\* img; the pixels are those of the source, flattened to RGB
save_as_png(img) == [kind |-> "png", id |-> img.id, w |-> img.w, h |-> img.h]

\* shutil.copy2(primary, other) inside the try of _copy_to_remaining_targets:
\* the file system after the attempt.  mode is what the operating system
\* does with the write: "ok", "fail" (nothing written) or "trunc" (the
\* destination is left truncated).  Copying a file onto itself raises
\* SameFileError and changes nothing.
copy2(fsys, primary, other, mode) ==
  IF other = primary \/ primary \notin DOMAIN fsys \/ mode = "fail" THEN fsys
  ELSE IF mode = "trunc" THEN WithFile(fsys, other, Truncated)
  ELSE WithFile(fsys, other, fsys[primary])

\* the attempt raised (and was logged by the except clause)
CopyRaises(fsys, primary, other, mode) ==
  other = primary \/ primary \notin DOMAIN fsys \/ mode # "ok"

\* the loop of _copy_to_remaining_targets from index k on: every remaining
\* target is attempted, an exception is logged and the loop goes on.
\* st is [fs, tried, failed]
RECURSIVE CopyLoop(_, _, _, _)
CopyLoop(st, png, k, modes) ==
  IF k > Len(png) THEN st
  ELSE CopyLoop([fs |-> copy2(st.fs, png[1], png[k], modes[png[k]]),
                 tried |-> Append(st.tried, k),
                 failed |-> IF CopyRaises(st.fs, png[1], png[k], modes[png[k]])
                            THEN st.failed \cup {k} ELSE st.failed],
                png, k + 1, modes)

\* the loop without the try: the first failing copy ends it
RECURSIVE CopyLoopUntilFailure(_, _, _, _)
CopyLoopUntilFailure(st, png, k, modes) ==
  IF k > Len(png) THEN st
  ELSE IF CopyRaises(st.fs, png[1], png[k], modes[png[k]])
       THEN [fs |-> copy2(st.fs, png[1], png[k], modes[png[k]]),
             tried |-> Append(st.tried, k),
             failed |-> st.failed \cup {k}]
       ELSE CopyLoopUntilFailure(
              [fs |-> copy2(st.fs, png[1], png[k], modes[png[k]]),
               tried |-> Append(st.tried, k),
               failed |-> st.failed],
              png, k + 1, modes)

copy_to_remaining_targets_UntilFailure(fsys, png, modes) ==
  CopyLoopUntilFailure([fs |-> fsys, tried |-> <<>>, failed |-> {}], png, 2, modes)

\* AltImageProcessor._copy_to_remaining_targets
copy_to_remaining_targets(fsys, png, modes) ==
  CopyLoop([fs |-> fsys, tried |-> <<>>, failed |-> {}], png, 2, modes)

----------------------------------------------------------------------------
(* The inputs: alternate images of the staging directory and files of the  *)
(* asset tree.                                                             *)

MaxFiles == 3

MaxAlts == 2

OP02068 == <<"O", "P", "0", "2", "-", "0", "6", "8">>

PRB02 == <<"(", "P", "R", "B", "0", "2", ")">>

Luffy == <<"L", "u", "f", "f", "y">>

\* the alternate images: stem, extension and the size of the decoded image
AltUniverse ==
  << [stem |-> OP02068 \o PRB02, ext |-> PNG, id |-> 101, w |-> 2000, h |-> 1500],
     [stem |-> <<"o", "p", "0", "2", "-", "0", "6", "8", " ", "a", "l", "t">>,
      ext |-> JPG, id |-> 102, w |-> 600, h |-> 838],
     [stem |-> OP02068, ext |-> JPEG, id |-> 103, w |-> 1024, h |-> 1024],
     [stem |-> OP02068 \o SMALL, ext |-> PNG, id |-> 104, w |-> 300, h |-> 1025],
     [stem |-> OP02068 \o <<"[", "a", "b", "]">>, ext |-> PNG, id |-> 105,
      w |-> 600, h |-> 838],
     [stem |-> Luffy \o <<" ", "(", "a", "l", "t", ")">>, ext |-> JPG, id |-> 106,
      w |-> 1500, h |-> 2000],
     [stem |-> <<"O", "P", "0", "2", "-", "*">>, ext |-> PNG, id |-> 107,
      w |-> 600, h |-> 838] >>

Cards == <<"cards">>

Thumbs == <<"cards", "thumbs">>

\* the files the asset tree may hold
FileUniverse ==
  << [dir |-> Cards, name |-> OP02068 \o PNG],
     [dir |-> Cards, name |-> OP02068 \o JPG],
     [dir |-> Thumbs, name |-> OP02068 \o SMALL \o JPG],
     [dir |-> <<>>, name |-> OP02068 \o SMALL \o PNG],
     [dir |-> Cards, name |-> OP02068 \o <<"a">> \o PNG],
     [dir |-> Cards, name |-> OP02068 \o <<"[", "a", "b", "]">> \o PNG],
     [dir |-> Cards, name |-> Luffy \o JPEG],
     [dir |-> <<"alts">>, name |-> OP02068 \o PNG] >>

FileIndex(p) == CHOOSE i \in 1..Len(FileUniverse) : FileUniverse[i] = p

\* the content of a file of the tree before the run
Original(p) == [kind |-> "orig", id |-> FileIndex(p), w |-> 600, h |-> 838]

Trees ==
  {T \in SUBSET {FileUniverse[i] : i \in 1..Len(FileUniverse)} :
     Cardinality(T) <= MaxFiles}

AltSet == {AltUniverse[i] : i \in 1..Len(AltUniverse)}

\* the images of a batch
BatchAlts == {AltUniverse[1], AltUniverse[3], AltUniverse[5], AltUniverse[6]}

\* the listings of the staging directory: distinct files, in any order
Listings ==
  UNION {{l \in [1..n -> BatchAlts] :
            \A i, j \in 1..n : i # j => l[i] # l[j]} : n \in 1..MaxAlts}

\* the trees of a batch
BatchTrees ==
  {{FileUniverse[i]} : i \in 1..Len(FileUniverse)}
  \cup {{}, {FileUniverse[1], FileUniverse[3]}}

\* the directories of the tree, in walk order
Dirs == << <<>>, <<"alts">>, Cards, Thumbs >>

DirIndex(d) == CHOOSE i \in 1..Len(Dirs) : Dirs[i] = d

\* a total order on the paths of the tree: by directory, then by name
PathLess(p, q) ==
  IF p.dir # q.dir THEN DirIndex(p.dir) < DirIndex(q.dir)
  ELSE StrLess(p.name, q.name)

RECURSIVE Ascending(_)
Ascending(S) ==
  IF S = {} THEN <<>>
  ELSE LET m == CHOOSE x \in S : \A y \in S \ {x} : PathLess(x, y)
       IN <<m>> \o Ascending(S \ {m})

Reverse(s) == [i \in 1..Len(s) |-> s[Len(s) + 1 - i]]

\* the orders in which the walk of rglob may yield the files of S: the
\* order is the file system's; two opposite orders are explored, so that
\* every two files are met in both orders
WalkOrders(S) == {Ascending(S), Reverse(Ascending(S))}

NoAlt == [stem |-> <<>>, ext |-> <<>>, id |-> 0, w |-> 0, h |-> 0]

----------------------------------------------------------------------------
(* The state machine                                                       *)

\* the state before replace_alt_cards runs on the tree T with the staging
\* directory listing l
InitWith(T, l) ==
  /\ fs = [p \in T |-> Original(p)]
  /\ listing = l
  /\ staging = {l[i] : i \in 1..Len(l)}
  /\ idx = 0
  /\ pc = "loop"
  /\ cur = NoAlt
  /\ bases = <<>>
  /\ targets = <<>>
  /\ sortedTargets = <<>>
  /\ pngTargets = <<>>
  /\ fs0 = fs
  /\ staging0 = staging
  /\ processed = <<>>
  /\ outcome = "none"
  /\ rmFailed = {}
  /\ cpFailed = {}
  /\ cpTried = <<>>
  /\ written = NoContent
  /\ raised = {}

\* one alternate image, any tree
Init == \E T \in Trees : \E a \in AltSet : InitWith(T, <<a>>)

\* a batch of alternate images over a small tree
InitBatch == \E T \in BatchTrees : \E l \in Listings : InitWith(T, l)

\* replace_alt_cards: the for loop takes the next image of the listing and
\* calls AltImageProcessor(alt_image, resolved_path).process()
NextImage ==
  /\ pc = "loop"
  /\ idx < Len(listing)
  /\ idx' = idx + 1
  /\ cur' = listing[idx + 1]
  /\ processed' = Append(processed, listing[idx + 1])
  /\ pc' = "extract"
  /\ fs0' = fs
  /\ staging0' = staging
  /\ bases' = <<>>
  /\ targets' = <<>>
  /\ sortedTargets' = <<>>
  /\ pngTargets' = <<>>
  /\ outcome' = "running"
  /\ rmFailed' = {}
  /\ cpFailed' = {}
  /\ cpTried' = <<>>
  /\ written' = NoContent
  /\ UNCHANGED <<fs, staging, listing, raised>>

\* process: bases = CardNameBases.from_filename(stem).get_unique_bases()
Extract ==
  /\ pc = "extract"
  /\ bases' = get_unique_bases(from_filename(cur.stem))
  /\ pc' = "locate"
  /\ UNCHANGED <<fs, staging, listing, idx, cur, targets, sortedTargets,
                 pngTargets, fs0, staging0, processed, outcome, rmFailed,
                 cpFailed, cpTried, written, raised>>

\* process without the early return: it goes on to the cleanup
AfterLocate_NoReturn(ts) == IF ts = <<>> THEN "cleanup" ELSE "sort"

\* where process goes after find_targets: "if not targets: return"
AfterLocate(ts) == IF ts = <<>> THEN "loop" ELSE "sort"

\* process: targets = self.target_finder.find_targets(unique_bases)
Locate ==
  /\ pc = "locate"
  /\ \E ord \in WalkOrders(DOMAIN fs) :
       /\ targets' = find_targets(ord, bases)
       /\ pc' = AfterLocate(find_targets(ord, bases))
       /\ outcome' = IF find_targets(ord, bases) = <<>> THEN "notargets"
                     ELSE outcome
  /\ UNCHANGED <<fs, staging, listing, idx, cur, bases, sortedTargets,
                 pngTargets, fs0, staging0, processed, rmFailed, cpFailed,
                 cpTried, written, raised>>

\* process: sorted_targets = sort_targets_by_priority(targets)
Prioritize ==
  /\ pc = "sort"
  /\ sortedTargets' = sort_targets_by_priority(targets)
  /\ pc' = "normalize"
  /\ UNCHANGED <<fs, staging, listing, idx, cur, bases, targets,
                 pngTargets, fs0, staging0, processed, outcome, rmFailed,
                 cpFailed, cpTried, written, raised>>

\* process: png_targets = TargetPathConverter.convert_to_png_paths(sorted)
Normalize ==
  /\ pc = "normalize"
  /\ \E failing \in SUBSET (StalePaths(sortedTargets) \cap DOMAIN fs) :
       /\ fs' = Without(fs, RemovedFiles(fs, sortedTargets, failing))
       /\ rmFailed' = failing
  /\ pngTargets' = convert_to_png_paths(sortedTargets)
  /\ pc' = "transcode"
  /\ UNCHANGED <<staging, listing, idx, cur, bases, targets,
                 sortedTargets, fs0, staging0, processed, outcome, cpFailed,
                 cpTried, written, raised>>

\* the outcomes of ImageConverter.save_as_png when Pillow is there: the
\* image is written, Image.open raises (nothing is written), or save raises
\* (the target is as it was, or was opened for writing and left truncated)
TranscodeResults == {"ok", "decode", "encode", "encode_trunc"}

\* process: self._convert_and_save_primary_target(png_targets[0]); an
\* exception leaves process
Transcode ==
  /\ pc = "transcode"
  /\ IF ~PIL_AVAILABLE
     THEN /\ outcome' = "nopil"
          /\ pc' = "except"
          /\ raised' = raised \cup {idx}
          /\ UNCHANGED <<fs, written>>
     ELSE \E r \in TranscodeResults :
            /\ fs' = CASE r = "ok" -> WithFile(fs, pngTargets[1], save_as_png(cur))
                       [] r = "encode_trunc" -> WithFile(fs, pngTargets[1], Truncated)
                       [] OTHER -> fs
            /\ written' = IF r = "ok" THEN save_as_png(cur) ELSE NoContent
            /\ outcome' = IF r = "ok" THEN outcome ELSE r
            /\ pc' = IF r = "ok" THEN "copy" ELSE "except"
            /\ raised' = IF r = "ok" THEN raised ELSE raised \cup {idx}
  /\ UNCHANGED <<staging, listing, idx, cur, bases, targets,
                 sortedTargets, pngTargets, fs0, staging0, processed,
                 rmFailed, cpFailed, cpTried>>

CopyModes == {"ok", "fail", "trunc"}

\* process: self._copy_to_remaining_targets(png_targets)
Duplicate ==
  /\ pc = "copy"
  /\ \E modes \in [{pngTargets[i] : i \in 2..Len(pngTargets)} -> CopyModes] :
       LET r == copy_to_remaining_targets(fs, pngTargets, modes)
       IN /\ fs' = r.fs
          /\ cpTried' = r.tried
          /\ cpFailed' = r.failed
  /\ pc' = "cleanup"
  /\ UNCHANGED <<staging, listing, idx, cur, bases, targets,
                 sortedTargets, pngTargets, fs0, staging0, processed, outcome,
                 rmFailed, written, raised>>

\* AltImageProcessor._remove_alt_image: unlink, an exception is logged
remove_alt_image(stg, alt, fails) == IF fails THEN stg ELSE stg \ {alt}

\* process: self._remove_alt_image()
Cleanup ==
  /\ pc = "cleanup"
  /\ \E fails \in BOOLEAN :
       /\ staging' = remove_alt_image(staging, cur, fails)
       /\ outcome' = IF fails THEN "cleanupfailed" ELSE "ok"
  /\ pc' = "loop"
  /\ UNCHANGED <<fs, listing, idx, cur, bases, targets, sortedTargets,
                 pngTargets, fs0, staging0, processed, rmFailed, cpFailed,
                 cpTried, written, raised>>

\* the exception ends the loop
ExceptBreak == "finished"

\* replace_alt_cards: "except Exception: continue"
ExceptContinue == "loop"

\* process raised: the except clause of the loop
Except ==
  /\ pc = "except"
  /\ pc' = ExceptContinue
  /\ UNCHANGED <<fs, staging, listing, idx, cur, bases, targets,
                 sortedTargets, pngTargets, fs0, staging0, processed, outcome,
                 rmFailed, cpFailed, cpTried, written, raised>>

\* the iterator is exhausted: replace_alt_cards returns
Finish ==
  /\ pc = "loop"
  /\ idx = Len(listing)
  /\ pc' = "finished"
  /\ UNCHANGED <<fs, staging, listing, idx, cur, bases, targets,
                 sortedTargets, pngTargets, fs0, staging0, processed, outcome,
                 rmFailed, cpFailed, cpTried, written, raised>>

Next ==
  \/ NextImage
  \/ Extract
  \/ Locate
  \/ Prioritize
  \/ Normalize
  \/ Transcode
  \/ Duplicate
  \/ Cleanup
  \/ Except
  \/ Finish

Spec == Init /\ [][Next]_vars

\* the batch: the program is one thread that keeps running until the loop
\* ends, so a step that can be taken is taken
SpecBatch == InitBatch /\ [][Next]_vars /\ WF_vars(Next)

----------------------------------------------------------------------------
(* The Identifier Extractor on its own: stems built from a prefix, a core  *)
(* and a tail.                                                             *)

StemPrefixes == { <<>>, <<"x">>, <<"(">>, <<"a", " ">> }

StemCores ==
  { OP02068,
    <<"o", "p", "0", "2", "-", "0", "6", "8">>,
    <<"S", "t", "0", "1", "-", "0", "0", "1">>,
    <<"E", "B", "0", "1", "-", "0", "0">>,
    <<"O", "P", "0", "2", "0", "6", "8">>,
    Luffy }

StemTails ==
  { <<>>, PRB02, <<" ", "(", "a", "l", "t", ")">>, SMALL,
    <<"e", "b", "0", "3", "-", "0", "1", "2">>, <<" ", " ">> }

ExtractStems ==
  {pre \o core \o tail : pre \in StemPrefixes, core \in StemCores,
                         tail \in StemTails}

InitExtract ==
  \E st \in ExtractStems :
    InitWith({}, << [stem |-> st, ext |-> PNG, id |-> 101, w |-> 600, h |-> 838] >>)

\* the loop hands the image to process, which extracts the base names
NextExtract ==
  \/ NextImage
  \/ Extract

SpecExtract == InitExtract /\ [][NextExtract]_vars

----------------------------------------------------------------------------
(* Properties                                                              *)

\* process is over for the current image: it returned or raised
Ended == idx >= 1 /\ pc \in {"loop", "except", "finished"}

TranscodeFailures == {"nopil", "decode", "encode", "encode_trunc"}

\* every file of the tree before process is still there, unchanged
TreeKept == \A p \in DOMAIN fs0 : p \in DOMAIN fs /\ fs[p] = fs0[p]

SeqSet(s) == {s[i] : i \in 1..Len(s)}

\* the name with its extension (.png, .jpg or .jpeg) replaced by .png
PngNamed(p) ==
  LET ext == CHOOSE e \in {PNG, JPG, JPEG} : EndsWith(p.name, e)
  IN [dir |-> p.dir,
      name |-> SubSeq(p.name, 1, Len(p.name) - Len(ext)) \o PNG]

IsJpeg(p) == EndsWith(p.name, JPG) \/ EndsWith(p.name, JPEG)

\* the copies that failed are copies of the primary target onto itself
OnlySelfCopiesFailed == \A k \in cpFailed : pngTargets[k] = pngTargets[1]

\* C1: when the transcode fails, the alternate image is still on disk and
\* every file that was under the asset tree before process is still there
\* with the same content.
C1_TranscodeFailureKeepsTree ==
  (Ended /\ outcome \in TranscodeFailures) => (cur \in staging /\ TreeKept)

\* C2: after a process with matched targets and no failing step, every
\* matched target's .png path exists and holds the content the transcode
\* wrote, no matched .jpg/.jpeg target remains, and the alternate image is
\* gone.  (A copy of the primary onto itself is not counted as a failing
\* step: the statement holds with it too.)
C2_AllTargetsConverted ==
  (Ended /\ outcome = "ok" /\ rmFailed = {} /\ OnlySelfCopiesFailed) =>
    /\ written # NoContent
    /\ \A p \in SeqSet(targets) :
         PngNamed(p) \in DOMAIN fs /\ fs[PngNamed(p)] = written
    /\ \A p \in SeqSet(targets) : IsJpeg(p) => p \notin DOMAIN fs
    /\ cur \notin staging

\* C2 witness: a successful replacement with three distinct targets, one of
\* them a .jpg/.jpeg file
C2_Witness ==
  /\ Ended /\ outcome = "ok" /\ rmFailed = {} /\ OnlySelfCopiesFailed
  /\ Cardinality(SeqSet(pngTargets)) >= 3
  /\ \E p \in SeqSet(targets) : IsJpeg(p)

\* C3: when no target is found, process ends with the asset tree and the
\* staging directory exactly as they were.
C3_NoTargetsNoEffect ==
  (Ended /\ targets = <<>>) =>
    (fs = fs0 /\ staging = staging0 /\ cur \in staging)

\* C3 witness: a non-empty tree in which nothing matches the image
C3_Witness == Ended /\ targets = <<>> /\ DOMAIN fs0 # {} /\ fs = fs0

\* C4: the images taken so far are the listing's first idx entries, in
\* order and once each, and the loop ends having processed the whole
\* listing, whatever happened to earlier images; the batch always gets there.
C4_BatchProcessesAll ==
  /\ [](/\ processed = SubSeq(listing, 1, idx)
        /\ (pc = "finished" => processed = listing))
  /\ <>(pc = "finished" /\ processed = listing)

\* C4 witness: the batch finished after the first of several images raised
C4_Witness ==
  /\ pc = "finished"
  /\ Len(listing) >= 2
  /\ 1 \in raised
  /\ processed = listing

\* the names candidate + suffix + extension of the base names bs
ExactNames(bs) ==
  {b \o sfx \o ext : b \in SeqSet(bs), sfx \in {<<>>, SMALL},
                     ext \in {PNG, JPG, JPEG}}

\* the name without its extension ends with "_small": a thumbnail variant
IsSmallVariant(p) == EndsWith(PngNamed(p).name, SMALL \o PNG)

\* the order the claim states: ("_small" variant, path segments, file name)
PriorityLess(p, q) ==
  IF IsSmallVariant(p) # IsSmallVariant(q) THEN IsSmallVariant(q)
  ELSE IF Len(Parts(p)) # Len(Parts(q)) THEN Len(Parts(p)) < Len(Parts(q))
  ELSE StrLess(p.name, q.name)

\* C5: the sorted targets ascend by ("_small" variant, path segments, file
\* name), so a "_small" thumbnail is never the primary target when a
\* non-"_small" target was matched; sorting again changes nothing.
C5_SmallNeverPrimary ==
  (sortedTargets # <<>> /\ \A p \in SeqSet(targets) : p.name \in ExactNames(bases)) =>
    /\ \A i, j \in 1..Len(sortedTargets) :
         i < j => ~PriorityLess(sortedTargets[j], sortedTargets[i])
    /\ (\E p \in SeqSet(sortedTargets) : ~IsSmallVariant(p))
         => ~IsSmallVariant(sortedTargets[1])
    /\ sort_targets_by_priority(sortedTargets) = sortedTargets

\* the positions of x in the list s
Positions(x, s) == {i \in 1..Len(s) : s[i] = x}

\* the stem contains a card code; its leftmost occurrence, in upper case
HasCode(stem) == \E i \in 1..Len(stem) : CodeAt(stem, i)

LeftmostCode(stem) ==
  LET i == CHOOSE k \in 1..Len(stem) :
             CodeAt(stem, k) /\ \A m \in 1..(k - 1) : ~CodeAt(stem, m)
  IN [k \in 1..8 |-> Upper(stem[i + k - 1])]

\* C6 as stated: for a stem containing a card code, the base names hold the
\* upper-case code exactly once, after the full stem, which is first.
C6_CodeAfterStem ==
  (pc = "locate" /\ HasCode(cur.stem)) =>
    /\ bases[1] = cur.stem
    /\ \E i \in 2..Len(bases) : Positions(LeftmostCode(cur.stem), bases) = {i}

\* C6 amended: for a stem containing a card code, the full stem is first
\* and the base names hold the upper-case code of the leftmost match exactly
\* once: after the full stem, or as the full stem when the stem is that code.
C6_CodeOnce ==
  (pc = "locate" /\ HasCode(cur.stem)) =>
    /\ bases[1] = cur.stem
    /\ Cardinality(Positions(LeftmostCode(cur.stem), bases)) = 1
    /\ IF cur.stem = LeftmostCode(cur.stem)
       THEN bases = <<cur.stem>>
       ELSE Positions(LeftmostCode(cur.stem), bases) = {2}

\* C6 witness: a lower-case code inside a stem with a parenthesis, found
\* in upper case after the stem
C6_Witness ==
  /\ pc = "locate"
  /\ HasCode(cur.stem)
  /\ InSeq("(", cur.stem)
  /\ LeftmostCode(cur.stem) # CodeSearch(cur.stem)
  /\ Len(bases) = 3
  /\ bases[2] = LeftmostCode(cur.stem)

\* the largest dimension save_as_png is to produce
MaxDimension == 1024

Largest(a, b) == IF a >= b THEN a ELSE b

\* a dimension d scaled by MaxDimension / m, truncated or rounded
Scaled(d, m) == {(d * MaxDimension) \div m, (2 * d * MaxDimension + m) \div (2 * m)}

\* C7: the written image has both dimensions at most 1024; a source whose
\* largest dimension exceeds 1024 is written with largest dimension 1024
\* and the other dimension scaled by the same ratio.
C7_OutputBounded ==
  (written # NoContent) =>
    /\ written.w <= MaxDimension /\ written.h <= MaxDimension
    /\ Largest(cur.w, cur.h) > MaxDimension =>
         /\ Largest(written.w, written.h) = MaxDimension
         /\ written.w \in Scaled(cur.w, Largest(cur.w, cur.h))
         /\ written.h \in Scaled(cur.h, Largest(cur.w, cur.h))

\* find_targets has run for the current image
Located == idx >= 1 /\ pc \notin {"extract", "locate"}

\* C8: find_targets returns exactly the files of the tree whose name is,
\* character for character, candidate + suffix + extension.
C8_ExactNameMatch ==
  Located =>
    SeqSet(targets) = {p \in DOMAIN fs0 : p.name \in ExactNames(bases)}

\* the secondary indices, in order
Secondaries == [i \in 1..(Len(pngTargets) - 1) |-> i + 1]

\* the Duplicating step has run for the current image
Duplicated == written # NoContent /\ pc # "copy"

\* C9: every secondary target is attempted, in order, whichever copies
\* fail; a secondary whose copy did not fail holds the primary's content;
\* process does not raise and Cleanup deletes the alternate image (unless
\* the deletion itself fails).
C9_CopiesIndependent ==
  Duplicated =>
    /\ cpTried = Secondaries
    /\ \A k \in 2..Len(pngTargets) :
         k \notin cpFailed =>
           /\ pngTargets[k] \in DOMAIN fs
           /\ fs[pngTargets[k]] = written
    /\ pc # "except" /\ idx \notin raised
    /\ Ended => outcome \in {"ok", "cleanupfailed"}
    /\ outcome = "ok" => cur \notin staging

\* C9 witness: the copy onto the primary itself failed, a later secondary
\* was still written, and the alternate image was deleted
C9_Witness ==
  /\ Duplicated /\ Ended /\ outcome = "ok"
  /\ \E k \in cpFailed : \E j \in (k + 1)..Len(pngTargets) :
       /\ pngTargets[k] = pngTargets[1]
       /\ j \notin cpFailed
       /\ pngTargets[j] # pngTargets[1]
       /\ fs[pngTargets[j]] = written
  /\ cur \notin staging

\* the paths process may touch: the matched files and their .png paths
Touchable == SeqSet(targets) \cup {PngNamed(p) : p \in SeqSet(targets)}

\* C10: whatever step fails, a file of the tree that is neither a matched
\* target nor a matched target's .png path is not created, changed or
\* deleted, and no staged file but the alternate image itself is touched.
C10_OnlyTargetsTouched ==
  (idx >= 1) =>
    /\ \A p \in (DOMAIN fs \cup DOMAIN fs0) \ Touchable :
         p \in DOMAIN fs /\ p \in DOMAIN fs0 /\ fs[p] = fs0[p]
    /\ staging \subseteq staging0
    /\ staging0 \ staging \subseteq {cur}

\* C10 witness: a replacement changed the tree and an unmatched file is
\* there as before
C10_Witness ==
  /\ Ended /\ outcome = "ok"
  /\ fs # fs0
  /\ \E p \in (DOMAIN fs0) \ Touchable : fs[p] = fs0[p]
  /\ \E p \in SeqSet(targets) : PngNamed(p) \notin DOMAIN fs0

====
